---- MODULE Spec2Model ----
(***************************************************************************)
(* Model of app6.py: the object tracker (SimpleTracker), the world model   *)
(* (MentalMap3D), the speech scheduler (IntelligentTTSEngine) with its     *)
(* worker thread, and the host loop of __main__.                           *)
(*                                                                         *)
(* Each component has its own specification over the shared variables:     *)
(*   SpecTracker  sequences of SimpleTracker.assign_ids calls              *)
(*   SpecMap      MentalMap3D.update calls while the wall clock advances   *)
(*   SpecTts      speak calls and one stop call, interleaved with the      *)
(*                worker thread                                            *)
(*   SpecTtsFair  the same with forced speak calls of one text and a       *)
(*                worker and a mixer that are not held up for ever         *)
(*   SpecTtsStopFair  the same with a worker and a stop() call that are    *)
(*                not held up for ever, and music that may play for ever   *)
(*   SpecMain     the host loop of __main__ with its speak and stop calls, *)
(*                interleaved with the worker thread                       *)
(*   SpecAnalysis prioritize_objects, analyze_situation and                *)
(*                generate_contextual_narration on a world model           *)
(***************************************************************************)
EXTENDS Integers, Sequences, FiniteSets, TLC

(***************************************************************************)
(* Bounds of the model (not program constants).                            *)
(***************************************************************************)
\* cap on SimpleTracker.next_id: a call that would mint past it is not made
MaxId == 3
\* cap on the number of assign_ids calls (the frame counter passed to it)
MaxFrame == 4
\* SimpleTracker(max_age=...) is constructed with max_age in 1..MaxAgeArg
MaxAgeArg == 2

\* cap on the wall clock (seconds) in SpecMap
MaxMapTime == 7
\* speak is no longer called once the worker has counted MaxSpoken phrases
MaxSpoken == 1
\* cap on the wall clock (seconds) in SpecTts
MaxTtsTime == 3
\* the camera delivers at most MaxHostFrame frames, then cap.read() fails
MaxHostFrame == 91
\* the world model given to the narration path has at most MaxWorld entries
MaxWorld == 3
\* prioritize_objects is called with top_n in 0..MaxTopN
MaxTopN == 2

(***************************************************************************)
(* Program constants.                                                      *)
(***************************************************************************)
\* iou_threshold=0.3, kept as the fraction IouThresholdNum / IouThresholdDen
IouThresholdNum == 3
IouThresholdDen == 10

\* MentalMap3D(keep_seconds=5.0), in seconds
keep_seconds == 5

\* queue.Queue(maxsize=5)
QueueMaxsize == 5
\* "if time_since < 3.0", in seconds
DebounceSeconds == 3

\* "if frame_count % 3 == 0"
DepthEvery == 3
\* narration_interval = 45
narration_interval == 45

\* "matched_id = None"
None == -1

Max(a, b) == IF a >= b THEN a ELSE b
Min(a, b) == IF a <= b THEN a ELSE b

RECURSIVE SetMin(_)
SetMin(S) ==
  LET x == CHOOSE y \in S : TRUE
  IN IF S = {x} THEN x ELSE Min(x, SetMin(S \ {x}))

(***************************************************************************)
(* Inputs.  A detection is {bbox, class, 3D_position}; boxes are integer   *)
(* pixel rectangles <<x1, y1, x2, y2>>.                                    *)
(*   BoxA/BoxB overlap with IoU 80/120, BoxA/BoxC with 50/150 (just above  *)
(*   0.3), BoxB/BoxC with 70/130; BoxD lies inside BoxA with IoU 30/100,   *)
(*   exactly 0.3, overlaps BoxB with 10/120 and is disjoint from BoxC.     *)
(***************************************************************************)
BoxA == <<0, 0, 10, 10>>
BoxB == <<2, 0, 12, 10>>
BoxC == <<5, 0, 15, 10>>
BoxD == <<0, 0, 3, 10>>

Dets ==
  { [bbox |-> BoxA, class |-> "person", pos |-> <<0, 0, 2>>],
    [bbox |-> BoxB, class |-> "person", pos |-> <<0, 0, 1>>],
    [bbox |-> BoxC, class |-> "car", pos |-> <<1, 0, 3>>],
    [bbox |-> BoxD, class |-> "chair", pos |-> <<2, 0, 4>>] }

\* the detection lists of one frame: at most two detections, of different boxes
DetLists ==
  {<<>>} \cup {<<d>> : d \in Dets}
         \cup UNION {{<<d, e>> : e \in Dets \ {d}} : d \in Dets}

VARIABLES
  \* SimpleTracker
  next_id, boxes_2d, positions_3d, timestamps, ages, max_age,
  \* the frame index of the last assign_ids call, and what it returned
  current_frame, assigned,
  \* history, for stating the claims: the ids minted so far in minting order,
  \* boxes_2d and next_id as they were when the last call began, per id the number of calls
  \* in a row that did not return it (capped at max_age + 1), and the ids
  \* that were ever purged
  minted, prev_boxes, prev_next_id, unmatched, ever_purged

trackerVars == <<next_id, boxes_2d, positions_3d, timestamps, ages, max_age,
                 current_frame, assigned, minted, prev_boxes, prev_next_id,
                 unmatched, ever_purged>>

VARIABLES
  \* time.time() in whole seconds, as MentalMap3D.update reads it
  now,
  \* MentalMap3D.map
  map,
  \* history: the map as it was when the last update began, the ids that
  \* update was given, and the time it sampled (None before the first update)
  prev_map, update_ids, update_time

mapVars == <<map, prev_map, update_ids, update_time>>

VARIABLES
  \* IntelligentTTSEngine: the fields,
  phrase_q, running, last_narration, last_narration_time, phrases_spoken,
  \* the directory cache_dir (does it exist) and the texts with a file in it,
  cache_dir, cache_files,
  \* pygame.mixer: is it initialised, and is music playing,
  mixer, music_busy,
  \* the worker thread: where it is in _worker_loop and its local "text" ("" when
  \* it holds no item),
  wpc, wtext,
  \* the thread that calls speak and stop: where it is, the arguments and the
  \* local time_since of the speak call it is in ("", FALSE and None outside
  \* speak), and what is left of os.listdir's result in stop
  mpc, mtext, mforce, time_since, listing,
  \* history of the speak call in progress: the queue as full() found it when
  \* it was full (<<>> otherwise), whether the worker took an item since, and
  \* how far the call got ("none" outside speak)
  call_q, popped, speak_result

ttsVars == <<phrase_q, running, last_narration, last_narration_time, phrases_spoken,
             cache_dir, cache_files, mixer, music_busy, wpc, wtext,
             mpc, mtext, mforce, time_since, listing,
             call_q, popped, speak_result>>

VARIABLES
  \* __main__: where the host is, frame_count, the frame whose depth map
  \* depth_map holds (None while depth_map is None), last_narration_frame,
  hpc, frame_count, depth_frame, last_narration_frame,
  \* history: the number of tts.stop() calls made
  stop_calls

mainVars == <<hpc, frame_count, depth_frame, last_narration_frame, stop_calls>>

VARIABLES
  \* the narration path of lines 513-518: its inputs, the world model (the
  \* entries of mental_map.map in the dict's order) and top_n,
  world, top_n,
  \* where the path is, and the values of prioritized, situation and narration
  \* (None until they are computed)
  apc, prioritized, situation, narration

analysisVars == <<world, top_n, apc, prioritized, situation, narration>>

vars == <<trackerVars, now, mapVars, ttsVars, mainVars, analysisVars>>

\* the variables of the other components, which a component's step leaves alone
notTrackerVars == <<now, mapVars, ttsVars, mainVars, analysisVars>>
notMapVars == <<trackerVars, ttsVars, mainVars, analysisVars>>
notTtsVars == <<trackerVars, mapVars, mainVars, analysisVars>>
notMainVars == <<trackerVars, now, mapVars, analysisVars>>
notAnalysisVars == <<trackerVars, now, mapVars, ttsVars, mainVars>>

(***************************************************************************)
(* SimpleTracker.iou.  The float interArea / (unionArea + 1e-6) is kept    *)
(* exactly as the pair <<interArea, unionArea>>; 0.0 is <<0, 1>>.          *)
(***************************************************************************)
iou(boxA, boxB) ==
  LET xA == Max(boxA[1], boxB[1])
      yA == Max(boxA[2], boxB[2])
      xB == Min(boxA[3], boxB[3])
      yB == Min(boxA[4], boxB[4])
      interArea == Max(0, xB - xA) * Max(0, yB - yA)
      boxAArea == Max(0, boxA[3] - boxA[1]) * Max(0, boxA[4] - boxA[2])
      boxBArea == Max(0, boxB[3] - boxB[1]) * Max(0, boxB[4] - boxB[2])
      unionArea == boxAArea + boxBArea - interArea
  IN IF unionArea <= 0 THEN <<0, 1>> ELSE <<interArea, unionArea>>

\* s > iou_threshold, for s = n / (d + 1e-6) with integers n, d (d < 10^5):
\* 10 n > 3 d + 3e-6  iff  10 n > 3 d
IouExceedsThreshold(s) == IouThresholdDen * s[1] > IouThresholdNum * s[2]

\* s > t for s = n1 / (d1 + 1e-6), t = n2 / (d2 + 1e-6):
\* n1 d2 - n2 d1 > 1e-6 (n2 - n1), the left side an integer
IouGreater(s, t) ==
  LET D == s[1] * t[2] - t[1] * s[2]
  IN D > 0 \/ (D = 0 /\ s[1] > t[1])

\* lines 48-57: the scan of self.boxes_2d.items() for one detection.  The
\* dict iterates in insertion order, which is ascending id order: ids are
\* inserted as they are minted and the rebuild at lines 86-90 keeps the order.
RECURSIVE ScanTracks(_, _, _, _, _, _)
ScanTracks(ids, det_bbox, boxes, used_ids, matched_id, best_iou) ==
  IF ids = {} THEN matched_id
  ELSE LET obj_id == SetMin(ids)
           rest == ids \ {obj_id}
           iou_score == iou(det_bbox, boxes[obj_id])
       IN IF obj_id \in used_ids
          THEN ScanTracks(rest, det_bbox, boxes, used_ids, matched_id, best_iou)
          ELSE IF IouExceedsThreshold(iou_score) /\ IouGreater(iou_score, best_iou)
          THEN ScanTracks(rest, det_bbox, boxes, used_ids, obj_id, iou_score)
          ELSE ScanTracks(rest, det_bbox, boxes, used_ids, matched_id, best_iou)

\* MatchTrack taking the first unclaimed track above the threshold instead of
\* the one with the highest IoU
MatchTrackFirstFit(det_bbox, boxes, used_ids) ==
  LET fit == {t \in DOMAIN boxes \ used_ids :
                IouExceedsThreshold(iou(det_bbox, boxes[t]))}
  IN IF fit = {} THEN None ELSE SetMin(fit)

\* MatchTrack without the "if obj_id in used_ids: continue" of lines 52-53
MatchTrackIgnoringUsed(det_bbox, boxes, used_ids) ==
  ScanTracks(DOMAIN boxes, det_bbox, boxes, {}, None, <<0, 1>>)

MatchTrack(det_bbox, boxes, used_ids) ==
  ScanTracks(DOMAIN boxes, det_bbox, boxes, used_ids, None, <<0, 1>>)

\* d[k] = v on a dict held as a function
Put(d, k, v) == [x \in DOMAIN d \cup {k} |-> IF x = k THEN v ELSE d[x]]

\* lines 65-72: the velocity, kept as the exact fraction num / den
Velocity(t, matched_id, det_pos3d, frame) ==
  LET has_prev == matched_id \in DOMAIN t.positions_3d
      prev_time == IF matched_id \in DOMAIN t.timestamps
                   THEN t.timestamps[matched_id] ELSE frame
      dt == Max(frame - prev_time, 1)
  IN IF has_prev /\ dt > 0
     THEN [num |-> [i \in 1..3 |-> det_pos3d[i] - t.positions_3d[matched_id][i]],
           den |-> dt]
     ELSE [num |-> <<0, 0, 0>>, den |-> 1]

\* MintId with the smallest id that is not a key of boxes_2d
MintIdSmallestFree(t) ==
  SetMin({n \in 0..t.next_id : n \notin DOMAIN t.boxes_2d})

\* line 59-61: the id of a detection that matched no track
MintId(t) == t.next_id

\* lines 59-61: next_id after a detection was given matched_id
BumpNextId(t, scanned) == IF scanned = None THEN t.next_id + 1 ELSE t.next_id

\* lines 45-80: the body of the loop over detections, for one detection.
\* t holds the tracker's fields, used_ids and assigned.
AssignOne(t, det, frame) ==
  LET scanned == MatchTrack(det.bbox, t.boxes_2d, t.used_ids)
      matched_id == IF scanned = None THEN MintId(t) ELSE scanned
      velocity == Velocity(t, matched_id, det.pos, frame)
  IN [ next_id      |-> BumpNextId(t, scanned),
       used_ids     |-> t.used_ids \cup {matched_id},
       boxes_2d     |-> Put(t.boxes_2d, matched_id, det.bbox),
       positions_3d |-> Put(t.positions_3d, matched_id, det.pos),
       timestamps   |-> Put(t.timestamps, matched_id, frame),
       ages         |-> Put(t.ages, matched_id, 0),
       assigned     |-> Append(t.assigned,
                               [id |-> matched_id, det |-> det, velocity |-> velocity]) ]

RECURSIVE AssignLoop(_, _, _, _)
AssignLoop(t, detections, i, frame) ==
  IF i > Len(detections) THEN t
  ELSE LET t1 == CHOOSE x \in {AssignOne(t, detections[i], frame)} : TRUE
       IN AssignLoop(t1, detections, i + 1, frame)

\* lines 82-84: the ages after the unclaimed tracks were aged
AgeUnused(t) ==
  [oid \in DOMAIN t.ages |-> IF oid \notin t.used_ids THEN t.ages[oid] + 1 ELSE t.ages[oid]]

\* ActiveIds with "age < max_age"
ActiveIdsStrict(aged, maxAge) == {oid \in DOMAIN aged : aged[oid] < maxAge}

\* line 86: active_ids
ActiveIds(aged, maxAge) == {oid \in DOMAIN aged : aged[oid] <= maxAge}

\* Keep without the filter: the mapping is left as it is
KeepAll(d, active_ids) == d

\* lines 87-89: {oid: d[oid] for oid in active_ids if oid in d}
Keep(d, active_ids) == [oid \in active_ids \cap DOMAIN d |-> d[oid]]

\* lines 41-92: assign_ids as a whole, from the fields in t
AssignIdsResult(t0, detections, frame, maxAge) ==
  LET t == CHOOSE x \in {AssignLoop([t0 EXCEPT !.used_ids = {}, !.assigned = <<>>],
                                     detections, 1, frame)} : TRUE
      aged == CHOOSE x \in {AgeUnused(t)} : TRUE
      active_ids == ActiveIds(aged, maxAge)
  IN [ t EXCEPT
       !.boxes_2d     = Keep(t.boxes_2d, active_ids),
       !.positions_3d = Keep(t.positions_3d, active_ids),
       !.timestamps   = Keep(t.timestamps, active_ids),
       !.ages         = [oid \in active_ids |-> aged[oid]] ]

TrackerFields ==
  [ next_id |-> next_id, used_ids |-> {}, boxes_2d |-> boxes_2d,
    positions_3d |-> positions_3d, timestamps |-> timestamps, ages |-> ages,
    assigned |-> <<>> ]

AssignedIds(out) == {out[i].id : i \in 1..Len(out)}

\* the ids of out, in order, that were not keys of boxes when the call began
RECURSIVE NewIds(_, _)
NewIds(out, boxes) ==
  IF out = <<>> THEN <<>>
  ELSE IF Head(out).id \in DOMAIN boxes
       THEN NewIds(Tail(out), boxes)
       ELSE <<Head(out).id>> \o NewIds(Tail(out), boxes)

\* SimpleTracker.assign_ids(detections, current_frame + 1)
AssignIds(detections) ==
  /\ current_frame < MaxFrame
  /\ \E r \in {AssignIdsResult(TrackerFields, detections, current_frame + 1, max_age)} :
     LET ids == AssignedIds(r.assigned)
         seen == DOMAIN unmatched \cup ids
         um == [oid \in seen |-> IF oid \in ids THEN 0
                                 ELSE Min(unmatched[oid] + 1, max_age + 1)]
     IN /\ r.next_id <= MaxId
        /\ current_frame' = current_frame + 1
        /\ next_id' = r.next_id
        /\ boxes_2d' = r.boxes_2d
        /\ positions_3d' = r.positions_3d
        /\ timestamps' = r.timestamps
        /\ ages' = r.ages
        /\ assigned' = r.assigned
        /\ minted' = minted \o NewIds(r.assigned, boxes_2d)
        /\ prev_boxes' = boxes_2d
        /\ prev_next_id' = next_id
        /\ unmatched' = um
        /\ ever_purged' = ever_purged \cup {oid \in seen : um[oid] > max_age}
        /\ UNCHANGED <<max_age, notTrackerVars>>

\* SimpleTracker.__init__ (lines 19-26), max_age an argument of the constructor
TrackerInit ==
  /\ next_id = 0
  /\ boxes_2d = <<>>
  /\ positions_3d = <<>>
  /\ timestamps = <<>>
  /\ ages = <<>>
  /\ max_age \in 1..MaxAgeArg
  /\ current_frame = 0
  /\ assigned = <<>>
  /\ minted = <<>>
  /\ prev_boxes = <<>>
  /\ prev_next_id = 0
  /\ unmatched = <<>>
  /\ ever_purged = {}

(***************************************************************************)
(* MentalMap3D                                                             *)
(***************************************************************************)
\* what assign_ids returns for a detection: (id, det) with det["velocity"] set
Tracked(oid, det, vel) ==
  [id |-> oid, det |-> det, velocity |-> [num |-> vel, den |-> 1]]

DetA == [bbox |-> BoxA, class |-> "person", pos |-> <<0, 0, 2>>]
DetC == [bbox |-> BoxC, class |-> "car", pos |-> <<1, 0, 3>>]

\* the tracked_objects lists given to update: at most two objects, ids 0 and 1
TrackedLists ==
  { <<>>,
    <<Tracked(0, DetA, <<0, 0, 0>>)>>,
    <<Tracked(0, DetC, <<0, 0, -1>>)>>,
    <<Tracked(1, DetC, <<0, 0, 0>>)>>,
    <<Tracked(0, DetA, <<0, 0, 0>>), Tracked(1, DetC, <<1, 0, 0>>)>> }

\* lines 102-108: the loop that writes one entry per tracked object
RECURSIVE Upsert(_, _, _, _)
Upsert(m, tracked_objects, i, current_time) ==
  IF i > Len(tracked_objects) THEN m
  ELSE LET o == tracked_objects[i]
           entry == [ class |-> o.det.class, position |-> o.det.pos,
                      velocity |-> o.velocity, last_seen |-> current_time ]
       IN Upsert(Put(m, o.id, entry), tracked_objects, i + 1, current_time)

\* Prune with "<" in place of "<="
PruneStrict(m, current_time) ==
  [oid \in {o \in DOMAIN m : current_time - m[o].last_seen < keep_seconds} |-> m[oid]]

\* Prune that removes nothing
PruneNothing(m, current_time) == m

\* lines 109-110: the entries kept
Prune(m, current_time) ==
  [oid \in {o \in DOMAIN m : current_time - m[o].last_seen <= keep_seconds} |-> m[oid]]

\* MentalMap3D.update(tracked_objects), lines 100-110
MapUpdate(tracked_objects) ==
  \E current_time \in {now} :
    /\ map' = Prune(Upsert(map, tracked_objects, 1, current_time), current_time)
    /\ prev_map' = map
    /\ update_ids' = AssignedIds(tracked_objects)
    /\ update_time' = current_time
    /\ UNCHANGED <<now, notMapVars>>

\* the wall clock advances by a second
Tick ==
  /\ now < MaxMapTime
  /\ now' = now + 1
  /\ UNCHANGED <<map, prev_map, update_ids, update_time, notMapVars>>

\* MentalMap3D.__init__, lines 96-98
MapInit ==
  /\ map = <<>>
  /\ prev_map = <<>>
  /\ update_ids = {}
  /\ update_time = None

MapNext ==
  \/ \E tracked_objects \in TrackedLists : MapUpdate(tracked_objects)
  \/ Tick

(***************************************************************************)
(* IntelligentTTSEngine.  The thread that owns the engine calls speak and  *)
(* stop; _worker_loop runs on the worker thread.  Every step is one        *)
(* operation on the shared state (queue, flag, mixer, file system), so the *)
(* two threads interleave between any two of them.                         *)
(***************************************************************************)
\* the narration texts; speak may also be called with the empty string
Texts == {"a", "b"}
SpeakTexts == Texts \cup {""}

\* where the calling thread is inside speak
SpeakPcs == {"sp_check", "sp_full", "sp_get", "sp_put", "sp_return"}

\* where the worker is inside the try of lines 387-390
TryPcs == {"exists", "open", "write", "load", "play", "busy"}

\* Queue.get / get_nowait taking the newest item
DequeueNewest(q) == SubSeq(q, 1, Len(q) - 1)

\* Queue.get / get_nowait on a non-empty queue: the oldest item leaves
Dequeue(q) == Tail(q)

\* the debounce test with "<=" in place of "<"
DebouncedInclusive(since) == since <= DebounceSeconds

\* line 350: time_since < 3.0
Debounced(since) == since < DebounceSeconds

\* speak(text, force) is entered (line 343): what it does to the engine
SpeakBegin(text, force) ==
  /\ mpc = "idle"
  /\ mpc' = "sp_check"
  /\ mtext' = text
  /\ mforce' = force
  /\ time_since' = None
  /\ call_q' = <<>>
  /\ popped' = FALSE
  /\ speak_result' = "none"
  /\ UNCHANGED <<phrase_q, running, last_narration, last_narration_time, phrases_spoken,
                 cache_dir, cache_files, mixer, music_busy, wpc, wtext, listing>>

\* a caller calls speak(text, force)
SpeakCall(text, force) ==
  /\ phrases_spoken < MaxSpoken
  /\ SpeakBegin(text, force)
  /\ UNCHANGED <<now, notTtsVars>>

\* the values time.time() can return: the clock does not run backwards, so
\* no reading is below the one last recorded
ClockReadings == last_narration_time..MaxTtsTime

\* lines 353-354: the text and a reading of the clock are recorded
SpeakAccept(t) ==
  /\ last_narration' = mtext
  /\ last_narration_time' = t
  /\ mpc' = "sp_full"
  /\ UNCHANGED speak_result

\* lines 344-354: the empty text returns; a non-forced repetition of the last
\* text reads the clock and returns when less than 3.0 s have passed; every
\* other call is accepted with a (second) reading of the clock
SpeakCheck ==
  /\ mpc = "sp_check"
  /\ IF mtext = ""
     THEN /\ mpc' = "sp_return"
          /\ speak_result' = "empty"
          /\ UNCHANGED <<last_narration, last_narration_time, time_since>>
     ELSE IF ~mforce /\ mtext = last_narration
     THEN \E t1 \in ClockReadings :
            /\ time_since' = t1 - last_narration_time
            /\ IF Debounced(t1 - last_narration_time)
               THEN /\ mpc' = "sp_return"
                    /\ speak_result' = "debounced"
                    /\ UNCHANGED <<last_narration, last_narration_time>>
               ELSE \E t2 \in {t1, Min(t1 + 1, MaxTtsTime)} : SpeakAccept(t2)
     ELSE /\ \E t2 \in ClockReadings : SpeakAccept(t2)
          /\ UNCHANGED time_since
  /\ UNCHANGED <<mtext, mforce, call_q, popped, phrase_q, running, phrases_spoken,
                 cache_dir, cache_files, mixer, music_busy, wpc, wtext, listing,
                 now, notTtsVars>>

\* line 357: self.phrase_q.full()
SpeakFull ==
  /\ mpc = "sp_full"
  /\ IF Len(phrase_q) >= QueueMaxsize
     THEN /\ mpc' = "sp_get"
          /\ call_q' = phrase_q
     ELSE /\ mpc' = "sp_put"
          /\ UNCHANGED call_q
  /\ UNCHANGED <<phrase_q, running, last_narration, last_narration_time, phrases_spoken,
                 cache_dir, cache_files, mixer, music_busy, wpc, wtext, mtext, mforce,
                 time_since, listing, popped, speak_result, now, notTtsVars>>

\* lines 358-361: get_nowait, queue.Empty passed over
SpeakGet ==
  /\ mpc = "sp_get"
  /\ IF phrase_q # <<>>
     THEN /\ speak_result' = "evicting"
          /\ phrase_q' = Dequeue(phrase_q)
     ELSE UNCHANGED <<speak_result, phrase_q>>
  /\ mpc' = "sp_put"
  /\ UNCHANGED <<running, last_narration, last_narration_time, phrases_spoken,
                 cache_dir, cache_files, mixer, music_busy, wpc, wtext, mtext, mforce, time_since,
                 listing, call_q, popped,
                 now, notTtsVars>>

\* lines 363-365: put_nowait, queue.Full passed over
SpeakPut ==
  /\ mpc = "sp_put"
  /\ IF Len(phrase_q) < QueueMaxsize
     THEN /\ phrase_q' = Append(phrase_q, mtext)
          /\ speak_result' = IF speak_result = "evicting" THEN "replaced" ELSE "enqueued"
     ELSE /\ speak_result' = "full"
          /\ UNCHANGED phrase_q
  /\ mpc' = "sp_return"
  /\ UNCHANGED <<running, last_narration, last_narration_time, phrases_spoken,
                 cache_dir, cache_files, mixer, music_busy, wpc, wtext,
                 mtext, mforce, time_since, call_q, popped, listing, now, notTtsVars>>

\* lines 345, 351, 365: speak returns to its caller
SpeakReturn ==
  /\ mpc = "sp_return"
  /\ mpc' = "idle"
  /\ mtext' = ""
  /\ mforce' = FALSE
  /\ time_since' = None
  /\ call_q' = <<>>
  /\ popped' = FALSE
  /\ speak_result' = "none"
  /\ UNCHANGED <<phrase_q, running, last_narration, last_narration_time, phrases_spoken,
                 cache_dir, cache_files, mixer, music_busy, wpc, wtext,
                 listing, now, notTtsVars>>

\* lines 391-392 with the exception handler missing: the thread ends
WorkerAfterExceptionEnds == "exit"

\* lines 391-392: after "except Exception" the while loop goes on
WorkerAfterException == "loop"

\* an exception inside the try of lines 387-390
WorkerRaises ==
  /\ wpc' = WorkerAfterException
  /\ wtext' = ""
  /\ UNCHANGED phrases_spoken

\* the loop test as "while True"
WhileTrue == TRUE

\* line 381: the test of "while self.running"
WhileRunning == running

\* line 381: while self.running
WorkerLoop ==
  /\ wpc = "loop"
  /\ wpc' = IF WhileRunning THEN "get" ELSE "exit"
  /\ UNCHANGED <<phrase_q, running, last_narration, last_narration_time, phrases_spoken,
                 cache_dir, cache_files, mixer, music_busy, wtext,
                 mpc, mtext, mforce, time_since, listing, call_q, popped, speak_result, now, notTtsVars>>

\* lines 382-385: get(timeout=0.2) returns the oldest text, or raises
\* queue.Empty when the queue stayed empty
WorkerGet ==
  /\ wpc = "get"
  /\ IF phrase_q # <<>>
     THEN /\ wtext' = Head(phrase_q)
          /\ phrase_q' = Dequeue(phrase_q)
          /\ wpc' = "exists"
          /\ popped' = (popped \/ call_q # <<>>)
     ELSE /\ wpc' = "loop"
          /\ UNCHANGED <<wtext, phrase_q, popped>>
  /\ UNCHANGED <<running, last_narration, last_narration_time, phrases_spoken,
                 cache_dir, cache_files, mixer, music_busy,
                 mpc, mtext, mforce, time_since, listing, call_q, speak_result, now, notTtsVars>>

\* lines 368-369: os.path.exists(path), the path named by the text's md5
WorkerExists ==
  /\ wpc = "exists"
  /\ wpc' = IF wtext \in cache_files THEN "load" ELSE "open"
  /\ UNCHANGED <<phrase_q, running, last_narration, last_narration_time, phrases_spoken,
                 cache_dir, cache_files, mixer, music_busy, wtext,
                 mpc, mtext, mforce, time_since, listing, call_q, popped, speak_result, now, notTtsVars>>

\* lines 370-371: tts.save(path) opens the file for writing, which creates
\* it, or raises when the directory is gone
WorkerOpen ==
  /\ wpc = "open"
  /\ IF cache_dir
     THEN /\ cache_files' = cache_files \cup {wtext}
          /\ wpc' = "write"
          /\ UNCHANGED <<phrases_spoken, wtext>>
     ELSE /\ WorkerRaises
          /\ UNCHANGED cache_files
  /\ UNCHANGED <<phrase_q, running, last_narration, last_narration_time,
                 cache_dir, mixer, music_busy,
                 mpc, mtext, mforce, time_since, listing, call_q, popped, speak_result, now, notTtsVars>>

\* line 371: tts.save(path) fetches the audio and writes it to the open file
WorkerWrite ==
  /\ wpc = "write"
  /\ wpc' = "load"
  /\ UNCHANGED <<phrase_q, running, last_narration, last_narration_time, phrases_spoken,
                 cache_dir, cache_files, mixer, music_busy, wtext,
                 mpc, mtext, mforce, time_since, listing, call_q, popped, speak_result, now, notTtsVars>>

\* line 371: the fetch fails (no network, a service error); the file stays
WorkerWriteFails ==
  /\ wpc = "write"
  /\ WorkerRaises
  /\ UNCHANGED <<phrase_q, running, last_narration, last_narration_time,
                 cache_dir, cache_files, mixer, music_busy,
                 mpc, mtext, mforce, time_since, listing, call_q, popped, speak_result, now, notTtsVars>>

\* line 375: pygame.mixer.music.load(path) raises when the mixer was quit or
\* the file is missing
WorkerLoad ==
  /\ wpc = "load"
  /\ IF mixer /\ wtext \in cache_files
     THEN /\ wpc' = "play"
          /\ UNCHANGED <<phrases_spoken, wtext>>
     ELSE WorkerRaises
  /\ UNCHANGED <<phrase_q, running, last_narration, last_narration_time,
                 cache_dir, cache_files, mixer, music_busy,
                 mpc, mtext, mforce, time_since, listing, call_q, popped, speak_result, now, notTtsVars>>

\* line 376: pygame.mixer.music.play()
WorkerPlay ==
  /\ wpc = "play"
  /\ IF mixer
     THEN /\ music_busy' = TRUE
          /\ wpc' = "busy"
          /\ UNCHANGED <<phrases_spoken, wtext>>
     ELSE /\ WorkerRaises
          /\ UNCHANGED music_busy
  /\ UNCHANGED <<phrase_q, running, last_narration, last_narration_time,
                 cache_dir, cache_files, mixer,
                 mpc, mtext, mforce, time_since, listing, call_q, popped, speak_result, now, notTtsVars>>

\* lines 377-378 and 390: get_busy() raises when the mixer was quit; the
\* loop sleeps while music plays; then phrases_spoken is counted up
WorkerBusy ==
  /\ wpc = "busy"
  /\ ~mixer \/ ~music_busy
  /\ IF mixer
     THEN /\ phrases_spoken' = phrases_spoken + 1
          /\ wpc' = "loop"
          /\ wtext' = ""
     ELSE WorkerRaises
  /\ UNCHANGED <<phrase_q, running, last_narration, last_narration_time,
                 cache_dir, cache_files, mixer, music_busy,
                 mpc, mtext, mforce, time_since, listing, call_q, popped, speak_result, now, notTtsVars>>

\* the mixer's playback thread: the music plays to its end
PlaybackEnds ==
  /\ music_busy
  /\ music_busy' = FALSE
  /\ UNCHANGED <<phrase_q, running, last_narration, last_narration_time, phrases_spoken,
                 cache_dir, cache_files, mixer, wpc, wtext,
                 mpc, mtext, mforce, time_since, listing, call_q, popped, speak_result, now, notTtsVars>>

\* line 395: stop() is entered and clears the flag: what it does to the engine
StopBegin ==
  /\ mpc = "idle"
  /\ running' = FALSE
  /\ mpc' = "st_empty"
  /\ UNCHANGED <<phrase_q, last_narration, last_narration_time, phrases_spoken,
                 cache_dir, cache_files, mixer, music_busy, wpc, wtext,
                 mtext, mforce, time_since, listing, call_q, popped, speak_result>>

\* a caller calls stop()
StopCall ==
  /\ StopBegin
  /\ UNCHANGED <<now, notTtsVars>>

\* line 396: while not self.phrase_q.empty()
StopEmpty ==
  /\ mpc = "st_empty"
  /\ mpc' = IF phrase_q = <<>> THEN "st_music" ELSE "st_get"
  /\ UNCHANGED <<phrase_q, running, last_narration, last_narration_time, phrases_spoken,
                 cache_dir, cache_files, mixer, music_busy, wpc, wtext,
                 mtext, mforce, time_since, listing, call_q, popped, speak_result, now, notTtsVars>>

\* lines 397-400: get_nowait; queue.Empty leaves the loop
StopGet ==
  /\ mpc = "st_get"
  /\ IF phrase_q # <<>>
     THEN /\ phrase_q' = Dequeue(phrase_q)
          /\ mpc' = "st_empty"
     ELSE /\ mpc' = "st_music"
          /\ UNCHANGED phrase_q
  /\ UNCHANGED <<running, last_narration, last_narration_time, phrases_spoken,
                 cache_dir, cache_files, mixer, music_busy, wpc, wtext,
                 mtext, mforce, time_since, listing, call_q, popped, speak_result, now, notTtsVars>>

\* line 402: pygame.mixer.music.stop()
StopMusic ==
  /\ mpc = "st_music"
  /\ music_busy' = FALSE
  /\ mpc' = "st_quit"
  /\ UNCHANGED <<phrase_q, running, last_narration, last_narration_time, phrases_spoken,
                 cache_dir, cache_files, mixer, wpc, wtext,
                 mtext, mforce, time_since, listing, call_q, popped, speak_result, now, notTtsVars>>

\* line 403: pygame.mixer.quit()
StopQuit ==
  /\ mpc = "st_quit"
  /\ mixer' = FALSE
  /\ music_busy' = FALSE
  /\ mpc' = "st_list"
  /\ UNCHANGED <<phrase_q, running, last_narration, last_narration_time, phrases_spoken,
                 cache_dir, cache_files, wpc, wtext,
                 mtext, mforce, time_since, listing, call_q, popped, speak_result, now, notTtsVars>>

\* line 407: os.listdir(self.cache_dir)
StopList ==
  /\ mpc = "st_list"
  /\ listing' = cache_files
  /\ mpc' = "st_remove"
  /\ UNCHANGED <<phrase_q, running, last_narration, last_narration_time, phrases_spoken,
                 cache_dir, cache_files, mixer, music_busy, wpc, wtext,
                 mtext, mforce, time_since, call_q, popped, speak_result, now, notTtsVars>>

\* lines 407-411: os.remove of one listed file
StopRemove ==
  /\ mpc = "st_remove"
  /\ \E f \in listing :
       /\ listing' = listing \ {f}
       /\ cache_files' = cache_files \ {f}
  /\ UNCHANGED <<phrase_q, running, last_narration, last_narration_time, phrases_spoken,
                 cache_dir, mixer, music_busy, wpc, wtext,
                 mpc, mtext, mforce, time_since, call_q, popped, speak_result, now, notTtsVars>>

\* lines 412-415: os.rmdir(self.cache_dir) removes the directory if it is
\* empty and raises otherwise, which "except: pass" drops; stop returns
StopRmdir ==
  /\ mpc = "st_remove"
  /\ listing = {}
  /\ cache_dir' = (cache_dir /\ cache_files # {})
  /\ mpc' = "stopped"
  /\ UNCHANGED <<phrase_q, running, last_narration, last_narration_time, phrases_spoken,
                 cache_files, mixer, music_busy, wpc, wtext,
                 mtext, mforce, time_since, listing, call_q, popped, speak_result, now, notTtsVars>>

\* IntelligentTTSEngine.__init__, lines 323-337: the worker thread is started
TtsInit ==
  /\ phrase_q = <<>>
  /\ running = TRUE
  /\ last_narration = ""
  /\ last_narration_time = 0
  /\ phrases_spoken = 0
  /\ cache_dir = TRUE
  /\ cache_files = {}
  /\ mixer = TRUE
  /\ music_busy = FALSE
  /\ wpc = "loop"
  /\ wtext = ""
  /\ mpc = "idle"
  /\ mtext = ""
  /\ mforce = FALSE
  /\ time_since = None
  /\ listing = {}
  /\ call_q = <<>>
  /\ popped = FALSE
  /\ speak_result = "none"

\* the steps of the worker thread, and of the mixer's playback
WorkerNext ==
  \/ WorkerLoop
  \/ WorkerGet
  \/ WorkerExists
  \/ WorkerOpen
  \/ WorkerWrite
  \/ WorkerWriteFails
  \/ WorkerLoad
  \/ WorkerPlay
  \/ WorkerBusy

\* every step of the engine but the call of speak
TtsSteps ==
  \/ SpeakCheck
  \/ SpeakFull
  \/ SpeakGet
  \/ SpeakPut
  \/ SpeakReturn
  \/ StopCall
  \/ StopEmpty
  \/ StopGet
  \/ StopMusic
  \/ StopQuit
  \/ StopList
  \/ StopRemove
  \/ StopRmdir
  \/ WorkerNext
  \/ PlaybackEnds

\* the steps of stop() after its call
StopSteps ==
  \/ StopEmpty
  \/ StopGet
  \/ StopMusic
  \/ StopQuit
  \/ StopList
  \/ StopRemove
  \/ StopRmdir

\* speak is called with any text, forced or not
SpeakAny == \E text \in SpeakTexts, force \in BOOLEAN : SpeakCall(text, force)

\* speak is called with one text and force=True: every call is accepted
SpeakForced == SpeakCall("a", TRUE)

TtsNext == SpeakAny \/ TtsSteps

TtsForcedNext == SpeakForced \/ TtsSteps

(***************************************************************************)
(* prioritize_objects, analyze_situation, generate_contextual_narration    *)
(* (lines 178-316).  Positions are in tenths of a metre and velocities in  *)
(* hundredths of a metre per frame, so that the thresholds of the code are *)
(* whole numbers; the world models given have positions whose norm is a    *)
(* whole number of tenths.                                                 *)
(***************************************************************************)
Entry(cls, pos, vel) == [class |-> cls, position |-> pos, velocity |-> vel]

\* the entries a world model is made of
Entries ==
  { Entry("person", <<5, 0, 12>>, <<0, 0, 0>>),
    Entry("chair", <<6, 0, 8>>, <<0, 0, 0>>),
    Entry("car", <<0, 0, 10>>, <<0, 0, -10>>),
    Entry("person", <<0, 0, 20>>, <<0, 0, -10>>),
    Entry("dog", <<7, 0, 24>>, <<0, 0, -3>>),
    Entry("car", <<0, 0, 30>>, <<0, 0, -10>>),
    Entry("person", <<-20, 0, 0>>, <<10, 0, 0>>),
    Entry("kite", <<0, 0, -10>>, <<0, 0, 0>>),
    Entry("car", <<0, 0, 40>>, <<0, 0, 10>>),
    Entry("bicycle", <<0, 0, 15>>, <<0, 0, -5>>),
    Entry("person", <<0, 0, 25>>, <<6, 0, -2>>),
    Entry("car", <<0, 0, 15>>, <<0, 0, -10>>),
    Entry("person", <<0, 0, 25>>, <<0, 0, -10>>) }

\* mental_map.items(): the i-th entry inserted has id i
Worlds ==
  UNION { [1..n -> Entries] : n \in 0..MaxWorld }

Abs(a) == IF a < 0 THEN -a ELSE a

\* the square of np.linalg.norm(v)
Norm2(v) == v[1] * v[1] + v[2] * v[2] + v[3] * v[3]

\* np.linalg.norm(pos), in tenths of a metre
Distance(pos) ==
  CHOOSE r \in 0..(Abs(pos[1]) + Abs(pos[2]) + Abs(pos[3])) : r * r = Norm2(pos)

\* lines 187-192: type_score
TypeScore(cls) ==
  CASE cls \in {"car", "truck", "bus"} -> 6
    [] cls \in {"person", "motorcycle"} -> 5
    [] cls \in {"bicycle", "stop sign", "dog"} -> 4
    [] cls \in {"traffic light", "cat"} -> 3
    [] OTHER -> 2

\* lines 194-201: a thousand times the score of an entry, as the fraction
\* num / den:
\*   (0.3*type_score + 0.3/(distance+0.5) + 0.2*velocity_score + 0.2*urgency)
\*   * fov_factor
\* with velocity_score in hundredths, and urgency and fov_factor in halves
Score(info) ==
  LET d == Distance(info.position)
      velocity_score == IF Norm2(info.velocity) > 1
                        THEN Max(0, -info.velocity[3]) ELSE 0
      fov2 == IF Abs(info.position[1]) < Max(info.position[3], 1) THEN 2 ELSE 1
      urgency2 == IF d < 20 THEN 2 ELSE 1
  IN [ num |-> fov2 * ((150 * TypeScore(info.class) + velocity_score
                         + 50 * urgency2) * (d + 5) + 1500),
       den |-> d + 5 ]

\* a >= b for two scores
ScoreGeq(a, b) == a.num * b.den >= b.num * a.den

\* the sort with reverse=False
RECURSIVE SortedAscending(_)
SortedAscending(scored) ==
  IF scored = <<>> THEN <<>>
  ELSE LET rest == SortedAscending(SubSeq(scored, 1, Len(scored) - 1))
           x == scored[Len(scored)]
           k == Cardinality({i \in 1..Len(rest) : ScoreGeq(x.score, rest[i].score)})
       IN SubSeq(rest, 1, k) \o <<x>> \o SubSeq(rest, k + 1, Len(rest))

\* line 205: scored_objects.sort(reverse=True, key=score), a stable sort: an
\* object goes behind the objects before it that score at least as high
RECURSIVE Sorted(_)
Sorted(scored) ==
  IF scored = <<>> THEN <<>>
  ELSE LET rest == Sorted(SubSeq(scored, 1, Len(scored) - 1))
           x == scored[Len(scored)]
           k == Cardinality({i \in 1..Len(rest) : ScoreGeq(rest[i].score, x.score)})
       IN SubSeq(rest, 1, k) \o <<x>> \o SubSeq(rest, k + 1, Len(rest))

\* lines 178-206: prioritize_objects(mental_map, top_n=n), as (id, info) pairs
PrioritizeObjects(m, n) ==
  LET scored_objects == [i \in 1..Len(m) |-> [score |-> Score(m[i]), id |-> i, info |-> m[i]]]
      sorted == Sorted(scored_objects)
  IN [i \in 1..Min(n, Len(sorted)) |-> [id |-> sorted[i].id, info |-> sorted[i].info]]

\* lines 226-232: direction
Direction(x) == IF x < -5 THEN "left" ELSE IF x > 5 THEN "right" ELSE "ahead"

\* lines 234-236: is_moving and is_approaching
IsMoving(vel) == Norm2(vel) > 25
IsApproaching(vel) == IF IsMoving(vel) THEN vel[3] < -2 ELSE FALSE

\* lines 239-244: urgency
Urgency(d) ==
  IF d < 15 THEN "very close"
  ELSE IF d < 25 THEN "approaching quickly"
  ELSE "approaching"

\* Bucket with the test of line 253 tried before the test of line 238
BucketMovingFirst(info) ==
  LET d == Distance(info.position)
  IN IF IsMoving(info.velocity) /\ d < 40 THEN "moving_objects"
     ELSE IF IsApproaching(info.velocity) /\ d < 30 THEN "urgent_alerts"
     ELSE IF ~IsMoving(info.velocity) /\ Direction(info.position[1]) = "ahead" /\ d < 30
          THEN "obstacles"
     ELSE "none"

\* lines 238-264: the bucket an entry goes to ("none" for no bucket)
Bucket(info) ==
  LET d == Distance(info.position)
  IN IF IsApproaching(info.velocity) /\ d < 30 THEN "urgent_alerts"
     ELSE IF IsMoving(info.velocity) /\ d < 40 THEN "moving_objects"
     ELSE IF ~IsMoving(info.velocity) /\ Direction(info.position[1]) = "ahead" /\ d < 30
          THEN "obstacles"
     ELSE "none"

\* lines 246-263: what is appended to the bucket
BucketItem(info) ==
  LET d == Distance(info.position)
      direction == Direction(info.position[1])
  IN CASE Bucket(info) = "urgent_alerts" ->
            [object |-> info.class, direction |-> direction,
             urgency |-> Urgency(d), distance |-> d]
       [] Bucket(info) = "moving_objects" ->
            [object |-> info.class, direction |-> direction, distance |-> d]
       [] OTHER -> [object |-> info.class, distance |-> d]

\* lines 220-264: the first loop over the world model
RECURSIVE Classify(_, _, _)
Classify(m, i, sit) ==
  IF i > Len(m) THEN sit
  ELSE LET b == Bucket(m[i])
       IN Classify(m, i + 1,
                   IF b = "none" THEN sit
                   ELSE [sit EXCEPT ![b] = Append(@, BucketItem(m[i]))])

\* the test of line 272 with the corridor of "ahead", 0.5 m to either side
InPathNarrow(info) ==
  /\ Abs(info.position[1]) <= 5
  /\ info.position[3] > 0
  /\ Distance(info.position) < 30

\* line 272: abs(x) < 0.7 and z > 0 and distance < 3.0
InPath(info) ==
  /\ Abs(info.position[1]) < 7
  /\ info.position[3] > 0
  /\ Distance(info.position) < 30

\* lines 266-274: the second loop, which stops at the first entry in the path
RECURSIVE AheadClear(_, _)
AheadClear(m, i) ==
  IF i > Len(m) THEN TRUE
  ELSE IF InPath(m[i]) THEN FALSE
  ELSE AheadClear(m, i + 1)

\* lines 212-277: analyze_situation(mental_map, prioritized_objects)
AnalyzeSituation(m) ==
  LET sit == Classify(m, 1, [urgent_alerts |-> <<>>, path_status |-> "clear",
                             obstacles |-> <<>>, moving_objects |-> <<>>])
  IN [sit EXCEPT !.path_status = IF AheadClear(m, 1) THEN "clear" ELSE "blocked"]

\* a text is the sequence of its pieces; lines 290-292, 298 and 303
AlertClause(alert) ==
  IF alert.urgency = "very close"
  THEN <<alert.object, " ", alert.urgency, " on your ", alert.direction>>
  ELSE <<alert.object, " ", alert.urgency, " from your ", alert.direction>>
MovingClause(mov) == <<mov.object, " moving on your ", mov.direction>>
ObstacleClause(obs) == <<obs.object, " in path ahead">>

\* seq[:n]
Take(seq, n) == SubSeq(seq, 1, Min(n, Len(seq)))

\* lines 305-308: the clause for the path status
StatusClause(sit) ==
  IF sit.path_status = "clear" THEN <<"the way ahead is clear">>
  ELSE <<"obstacle in path">>

\* narration_parts with "if" in place of "elif": every bucket contributes
NarrationPartsEveryBucket(sit) ==
  [i \in 1..Len(Take(sit.urgent_alerts, 2)) |-> AlertClause(sit.urgent_alerts[i])]
  \o [i \in 1..Len(Take(sit.moving_objects, 2)) |-> MovingClause(sit.moving_objects[i])]
  \o [i \in 1..Len(Take(sit.obstacles, 1)) |-> ObstacleClause(sit.obstacles[i])]
  \o <<StatusClause(sit)>>

\* lines 281-308: narration_parts
NarrationParts(sit) ==
  LET chosen ==
        IF sit.urgent_alerts # <<>>
        THEN [i \in 1..Len(Take(sit.urgent_alerts, 2)) |-> AlertClause(sit.urgent_alerts[i])]
        ELSE IF sit.moving_objects # <<>>
        THEN [i \in 1..Len(Take(sit.moving_objects, 2)) |-> MovingClause(sit.moving_objects[i])]
        ELSE IF sit.obstacles # <<>>
        THEN [i \in 1..Len(Take(sit.obstacles, 1)) |-> ObstacleClause(sit.obstacles[i])]
        ELSE <<>>
  IN Append(chosen, StatusClause(sit))

\* "; ".join(parts)
RECURSIVE Join(_)
Join(parts) ==
  IF parts = <<>> THEN <<>>
  ELSE IF Len(parts) = 1 THEN parts[1]
  ELSE parts[1] \o <<"; ">> \o Join(Tail(parts))

ClearPhrase == <<"Path is clear, no immediate hazards">>

\* generate_contextual_narration with the single clause returned as it is
\* (the branch of lines 313-314 reached)
GenerateSingleClause(sit) ==
  LET narration_parts == NarrationParts(sit)
  IN IF narration_parts = <<>> THEN ClearPhrase
     ELSE IF Len(narration_parts) = 1 THEN narration_parts[1]
     ELSE Join(Take(narration_parts, 2))

\* lines 310-316: generate_contextual_narration(situation, prioritized_objects)
GenerateContextualNarration(sit) ==
  LET narration_parts == NarrationParts(sit)
  IN IF narration_parts = <<>> \/ Len(narration_parts) = 1 THEN ClearPhrase
     ELSE Join(Take(narration_parts, 2))

\* before the narration path is entered
AnalysisInit ==
  /\ world = <<>>
  /\ top_n = 0
  /\ apc = "idle"
  /\ prioritized = None
  /\ situation = None
  /\ narration = None

\* the narration path is entered with a world model
EnterAnalysis ==
  /\ apc = "idle"
  /\ world' \in Worlds
  /\ top_n' \in 0..MaxTopN
  /\ apc' = "prioritize"
  /\ UNCHANGED <<prioritized, situation, narration, notAnalysisVars>>

\* line 513: prioritized = prioritize_objects(mental_map.map)
Prioritize ==
  /\ apc = "prioritize"
  /\ prioritized' = PrioritizeObjects(world, top_n)
  /\ apc' = "analyze"
  /\ UNCHANGED <<world, top_n, situation, narration, notAnalysisVars>>

\* line 517: situation = analyze_situation(mental_map.map, prioritized)
Analyze ==
  /\ apc = "analyze"
  /\ situation' = AnalyzeSituation(world)
  /\ apc' = "narrate"
  /\ UNCHANGED <<world, top_n, prioritized, narration, notAnalysisVars>>

\* line 518: narration = generate_contextual_narration(situation, prioritized)
Narrate ==
  /\ apc = "narrate"
  /\ narration' = GenerateContextualNarration(situation)
  /\ apc' = "done"
  /\ UNCHANGED <<world, top_n, prioritized, situation, notAnalysisVars>>

AnalysisNext ==
  \/ EnterAnalysis
  \/ Prioritize
  \/ Analyze
  \/ Narrate

(***************************************************************************)
(* __main__ (lines 421-584): the host loop, which calls speak and stop.    *)
(* The detector, the depth estimator, the tracker, the map and the         *)
(* analysis are calls that return or raise; what they compute does not     *)
(* steer the loop.                                                         *)
(***************************************************************************)
\* lines 463-466, with hpc at the camera check of line 459
MainInit ==
  /\ hpc = "start"
  /\ frame_count = 0
  /\ depth_frame = None
  /\ last_narration_frame = 0
  /\ stop_calls = 0

\* the process ends: the daemon worker thread ends with it
ProcessExits ==
  /\ hpc' = "exited"
  /\ wpc' = "exit"

\* lines 456-461: the camera is opened and the loop is entered, or it is not
\* and exit() ends the process
HostOpenCamera ==
  /\ hpc = "start"
  /\ \/ /\ hpc' = "loop"
        /\ UNCHANGED wpc
     \/ ProcessExits
  /\ UNCHANGED <<phrase_q, running, last_narration, last_narration_time, phrases_spoken,
                 cache_dir, cache_files, mixer, music_busy, wtext,
                 mpc, mtext, mforce, time_since, listing, call_q, popped, speak_result,
                 frame_count, depth_frame, last_narration_frame, stop_calls, notMainVars>>

\* lines 479-480: the depth map in use for frame fc
DepthFor(fc) == IF fc % DepthEvery = 0 THEN fc ELSE depth_frame

\* the narration trigger with ">" in place of ">="
NarrationDueStrict(fc) == fc - last_narration_frame > narration_interval

\* line 516: frame_count - last_narration_frame >= narration_interval
NarrationDue(fc) == fc - last_narration_frame >= narration_interval

\* lines 470-521: a frame is read and counted, the depth map is recomputed on
\* every 3rd frame, the frame is skipped while there is no depth map, the
\* detections are tracked and mapped, and speak is called with the narration
\* when narration_interval frames have passed
HostFrame ==
  /\ hpc = "loop"
  /\ frame_count < MaxHostFrame
  /\ frame_count' = frame_count + 1
  /\ depth_frame' = DepthFor(frame_count + 1)
  /\ IF DepthFor(frame_count + 1) = None
     THEN /\ hpc' = "loop"
          /\ UNCHANGED ttsVars
     ELSE IF NarrationDue(frame_count + 1)
     THEN /\ hpc' = "speaking"
          /\ \E text \in Texts : SpeakBegin(text, FALSE)
     ELSE /\ hpc' = "key"
          /\ UNCHANGED ttsVars
  /\ UNCHANGED <<last_narration_frame, stop_calls, notMainVars>>

\* lines 471-473: cap.read() fails and the loop is left
HostReadFails ==
  /\ hpc = "loop"
  /\ hpc' = "finally"
  /\ UNCHANGED <<frame_count, depth_frame, last_narration_frame, stop_calls,
                 ttsVars, notMainVars>>

\* lines 479-513 and 575-578: the depth estimator raises, or a later call of
\* the frame's pipeline does, and "except Exception" is entered
HostFrameRaises ==
  /\ hpc = "loop"
  /\ frame_count < MaxHostFrame
  /\ frame_count' = frame_count + 1
  /\ \/ /\ (frame_count + 1) % DepthEvery = 0
        /\ UNCHANGED depth_frame
     \/ /\ DepthFor(frame_count + 1) # None
        /\ depth_frame' = DepthFor(frame_count + 1)
  /\ hpc' = "finally"
  /\ UNCHANGED <<last_narration_frame, stop_calls, ttsVars, notMainVars>>

\* lines 519-521: speak has returned
HostAfterSpeak ==
  /\ hpc = "speaking"
  /\ mpc = "idle"
  /\ last_narration_frame' = frame_count
  /\ hpc' = "key"
  /\ UNCHANGED <<frame_count, depth_frame, stop_calls, ttsVars, notMainVars>>

\* lines 523-571: the views are drawn; the "q" key leaves the loop
HostKey ==
  /\ hpc = "key"
  /\ hpc' \in {"loop", "finally"}
  /\ UNCHANGED <<frame_count, depth_frame, last_narration_frame, stop_calls,
                 ttsVars, notMainVars>>

\* lines 573-574: KeyboardInterrupt is raised somewhere inside the try, a
\* speak call in progress being abandoned
HostInterrupt ==
  /\ hpc \in {"loop", "speaking", "key"}
  /\ hpc' = "finally"
  /\ mpc' = "idle"
  /\ mtext' = ""
  /\ mforce' = FALSE
  /\ time_since' = None
  /\ call_q' = <<>>
  /\ popped' = FALSE
  /\ speak_result' = "none"
  /\ UNCHANGED <<phrase_q, running, last_narration, last_narration_time, phrases_spoken,
                 cache_dir, cache_files, mixer, music_busy, wpc, wtext, listing,
                 frame_count, depth_frame, last_narration_frame, stop_calls, notMainVars>>

\* lines 579-581: the finally block calls tts.stop()
HostFinally ==
  /\ hpc = "finally"
  /\ StopBegin
  /\ stop_calls' = stop_calls + 1
  /\ hpc' = "stopping"
  /\ UNCHANGED <<frame_count, depth_frame, last_narration_frame, notMainVars>>

\* lines 582-584: stop has returned; the rest of the finally block, and the
\* end of the script
HostExit ==
  /\ hpc = "stopping"
  /\ mpc = "stopped"
  /\ ProcessExits
  /\ UNCHANGED <<phrase_q, running, last_narration, last_narration_time, phrases_spoken,
                 cache_dir, cache_files, mixer, music_busy, wtext,
                 mpc, mtext, mforce, time_since, listing, call_q, popped, speak_result,
                 frame_count, depth_frame, last_narration_frame, stop_calls, notMainVars>>

\* the steps of the host, and the steps of the engine that its calls and the
\* worker take; fewer than 5 texts are queued within MaxHostFrame frames,
\* so the get_nowait of speak is never reached
MainNext ==
  \/ HostOpenCamera
  \/ HostFrame
  \/ HostReadFails
  \/ HostFrameRaises
  \/ HostAfterSpeak
  \/ HostKey
  \/ HostInterrupt
  \/ HostFinally
  \/ HostExit
  \/ SpeakCheck
  \/ SpeakFull
  \/ SpeakPut
  \/ SpeakReturn
  \/ StopEmpty
  \/ StopGet
  \/ StopMusic
  \/ StopQuit
  \/ StopList
  \/ StopRemove
  \/ StopRmdir
  \/ WorkerNext
  \/ PlaybackEnds

Init == TrackerInit /\ MapInit /\ TtsInit /\ MainInit /\ AnalysisInit /\ now = 0

TrackerNext == \E detections \in DetLists : AssignIds(detections)

SpecTracker == Init /\ [][TrackerNext]_vars

\* the tracker is not stepped by the other components: one constructor
\* argument is enough for their specifications
InitOneTracker == Init /\ max_age = 1

SpecMap == InitOneTracker /\ [][MapNext]_vars

SpecTts == InitOneTracker /\ [][TtsNext]_vars

\* the worker and the thread inside stop() are not held up for ever; music
\* that plays need never come to its end by itself
SpecTtsStopFair ==
  /\ InitOneTracker
  /\ [][TtsForcedNext]_vars
  /\ WF_vars(WorkerNext)
  /\ WF_vars(StopSteps)

SpecMain == InitOneTracker /\ [][MainNext]_vars

SpecAnalysis == InitOneTracker /\ [][AnalysisNext]_vars

\* the worker is a thread of its own and the mixer plays on its own: neither
\* is held up for ever; the thread that calls speak and stop may pause
SpecTtsFair ==
  /\ InitOneTracker
  /\ [][TtsForcedNext]_vars
  /\ WF_vars(WorkerNext)
  /\ WF_vars(PlaybackEnds)

(***************************************************************************)
(* Claims about SimpleTracker, checked under SpecTracker.                  *)
(***************************************************************************)

\* C1: over any sequence of assign_ids calls on a fresh tracker the minted
\* ids are 0, 1, 2, ... in minting order (so no id is handed out twice, also
\* not after its track was purged), and the ids returned by one call are
\* pairwise different.
C1_IdsMintedInOrder ==
  /\ minted = [i \in 1..Len(minted) |-> i - 1]
  /\ next_id = Len(minted)
  /\ \A i, j \in 1..Len(assigned) : i # j => assigned[i].id # assigned[j].id

\* a call that minted two ids after an earlier track had been purged
C1_Witness ==
  /\ ever_purged # {}
  /\ Len(assigned) = 2
  /\ \A i \in 1..Len(assigned) : assigned[i].id \notin DOMAIN prev_boxes

\* "IoU exceeds 0.3", stated on the pair iou returns
C2_Above03(s) == 10 * s[1] > 3 * s[2]

\* the ids that the detections before the i-th of the last call were given
C2_ClaimedBefore(i) == {assigned[j].id : j \in 1..(i - 1)}

\* C2 as claimed: every detection of a call that overlaps some track kept
\* from earlier frames with IoU above 0.3 is given the id of such a track.
C2_Original ==
  \A i \in 1..Len(assigned) :
    (\E t \in DOMAIN prev_boxes : C2_Above03(iou(assigned[i].det.bbox, prev_boxes[t])))
    => /\ assigned[i].id \in DOMAIN prev_boxes
       /\ C2_Above03(iou(assigned[i].det.bbox, prev_boxes[assigned[i].id]))

\* C2 as amended: every detection of a call that overlaps, with IoU above
\* 0.3, some track kept from earlier frames that no earlier detection of the
\* same call has claimed is given the id of such a track, and the call mints
\* ids only for the other detections.
C2_MatchesUnclaimedTrack ==
  /\ \A i \in 1..Len(assigned) :
       (\E t \in DOMAIN prev_boxes \ C2_ClaimedBefore(i) :
           C2_Above03(iou(assigned[i].det.bbox, prev_boxes[t])))
       => /\ assigned[i].id \in DOMAIN prev_boxes \ C2_ClaimedBefore(i)
          /\ C2_Above03(iou(assigned[i].det.bbox, prev_boxes[assigned[i].id]))
  /\ next_id - prev_next_id
       = Cardinality({i \in 1..Len(assigned) : assigned[i].id \notin DOMAIN prev_boxes})

\* a call whose two detections both kept the id of an earlier track, the
\* second with a box other than the track's last one
C2_Witness ==
  /\ Len(assigned) = 2
  /\ \A i \in 1..2 : assigned[i].id \in DOMAIN prev_boxes
  /\ assigned[2].det.bbox # prev_boxes[assigned[2].id]

\* C3: a track is in the tracker's state after k calls in a row that did not
\* match it iff k <= max_age; its stored age is that k (0 after a match);
\* once purged it is in none of the four mappings and is never returned again.
C3_PurgedAfterMaxAge ==
  /\ \A oid \in DOMAIN unmatched :
       /\ oid \in DOMAIN ages <=> unmatched[oid] <= max_age
       /\ oid \in DOMAIN ages => ages[oid] = unmatched[oid]
  /\ DOMAIN boxes_2d = DOMAIN ages
  /\ DOMAIN positions_3d = DOMAIN ages
  /\ DOMAIN timestamps = DOMAIN ages
  /\ ever_purged \cap (DOMAIN ages \cup AssignedIds(assigned)) = {}

\* a track was purged, another is kept at age max_age, and the last call
\* minted an id
C3_Witness ==
  /\ ever_purged # {}
  /\ \E oid \in DOMAIN ages : ages[oid] = max_age
  /\ \E i \in 1..Len(assigned) : assigned[i].id \notin DOMAIN prev_boxes

(***************************************************************************)
(* Claims about MentalMap3D, checked under SpecMap.                        *)
(***************************************************************************)

\* C4: after an update call that sampled the time update_time, every id of
\* its input is in the map with last_seen = update_time, and an id not in
\* its input is in the map iff it was there before the call and
\* update_time - last_seen <= keep_seconds.
C4_UpdateRefreshesAndPrunes ==
  update_time # None =>
    /\ \A oid \in update_ids :
         oid \in DOMAIN map /\ map[oid].last_seen = update_time
    /\ \A oid \in (DOMAIN map \cup DOMAIN prev_map) \ update_ids :
         oid \in DOMAIN map
           <=> /\ oid \in DOMAIN prev_map
               /\ update_time - prev_map[oid].last_seen <= keep_seconds
    /\ \A oid \in DOMAIN map \ update_ids : map[oid] = prev_map[oid]

\* an update that dropped one entry and kept another that was last seen
\* exactly keep_seconds before, neither of them in its input
C4_Witness ==
  /\ update_time # None
  /\ update_time = now
  /\ \E oid \in DOMAIN prev_map : oid \notin DOMAIN map
  /\ \E oid \in DOMAIN map \ update_ids : update_time - map[oid].last_seen = keep_seconds

\* C5 as claimed: in every state every entry of the map was refreshed at most
\* keep_seconds before the current time.
C5_Original ==
  \A oid \in DOMAIN map : now - map[oid].last_seen <= keep_seconds

\* C5 as amended: every entry of the map was refreshed at most keep_seconds
\* before the time the last update call sampled; entries are evicted by
\* update calls only, so between two calls an entry can stay longer than
\* keep_seconds after its last refresh.
C5_FreshAtLastUpdate ==
  \A oid \in DOMAIN map : update_time - map[oid].last_seen <= keep_seconds

\* an entry still in the map more than keep_seconds after its last refresh
C5_Witness ==
  \E oid \in DOMAIN map : now - map[oid].last_seen > keep_seconds

(***************************************************************************)
(* Claims about IntelligentTTSEngine, checked under SpecTts / SpecTtsFair. *)
(***************************************************************************)

\* the step in which speak decides between returning and accepting
C6_Decides == mpc = "sp_check" /\ mpc' # "sp_check"

\* the deciding step accepts the call: the text and the time are recorded
\* and the call goes on to the queue
C6_Accepts ==
  /\ mpc' = "sp_full"
  /\ last_narration' = mtext
  /\ last_narration_time' >= last_narration_time

\* the parts of C6 about the debounce: a non-forced call with the last
\* accepted text that reads the clock less than 3.0 s after that acceptance
\* returns without touching the queue, the recorded text and the recorded
\* time; a non-forced call with the last accepted text that is accepted
\* records a time at least 3.0 s after the one recorded before
C6_Debounce ==
  /\ (~mforce /\ mtext # "" /\ mtext = last_narration
        /\ time_since' # None /\ time_since' < DebounceSeconds)
     => /\ mpc' = "sp_return"
        /\ UNCHANGED <<phrase_q, last_narration, last_narration_time>>
  /\ (~mforce /\ mtext = last_narration /\ mpc' = "sp_full")
     => last_narration_time' - last_narration_time >= DebounceSeconds

\* C6 as claimed: the debounce, and a call with force=true, with a different
\* non-empty text, or after 3.0 s or more is accepted.
C6_Original ==
  [][C6_Decides =>
       /\ C6_Debounce
       /\ (\/ mforce
           \/ (mtext # "" /\ mtext # last_narration)
           \/ (time_since' # None /\ time_since' >= DebounceSeconds))
          => C6_Accepts]_vars

\* C6 as amended: the debounce, and a call with a non-empty text that has
\* force=true, or a text other than the last accepted one, or comes 3.0 s or
\* more after the last acceptance, is accepted; a call that returns early
\* leaves the queue and the record alone.
C6_DebounceAndAcceptance ==
  [][C6_Decides =>
       /\ C6_Debounce
       /\ (/\ mtext # ""
           /\ \/ mforce
              \/ mtext # last_narration
              \/ (time_since' # None /\ time_since' >= DebounceSeconds))
          => C6_Accepts
       /\ mpc' = "sp_return"
          => UNCHANGED <<phrase_q, last_narration, last_narration_time>>]_vars

\* a non-forced repetition of the last accepted text has just been dropped,
\* less than 3.0 s after a first acceptance that came later than time 0
C6_Witness ==
  /\ mpc = "sp_return"
  /\ speak_result = "debounced"
  /\ ~mforce
  /\ mtext = last_narration
  /\ time_since # None
  /\ time_since < DebounceSeconds
  /\ last_narration_time > 0

\* C7: the queue never holds more than 5 texts, and a speak call that found
\* the queue holding 5 texts, with no pop by the worker before its own push,
\* leaves it holding 5: the four newest in their order, then the new text.
C7_BoundedDropOldest ==
  /\ [](Len(phrase_q) <= QueueMaxsize)
  /\ [][(mpc = "sp_put" /\ mpc' = "sp_return" /\ call_q # <<>> /\ ~popped)
         => /\ Len(call_q) = QueueMaxsize
            /\ phrase_q' = SubSeq(call_q, 2, QueueMaxsize) \o <<mtext>>
            /\ Len(phrase_q') = QueueMaxsize]_vars

\* a call has just replaced the oldest of 5 queued texts, the oldest and the
\* new text being different texts, with no pop by the worker in between
C7_Witness ==
  /\ mpc = "sp_return"
  /\ speak_result = "replaced"
  /\ ~popped
  /\ Len(call_q) = QueueMaxsize
  /\ Len(phrase_q) = QueueMaxsize
  /\ call_q[1] # mtext
  /\ call_q[1] # call_q[2]

\* C8 as claimed: once stop() has returned and the worker thread has ended,
\* the queue is empty, no cached audio file exists and the cache directory
\* is gone.
C8_CleanAfterStop ==
  (mpc = "stopped" /\ wpc = "exit")
  => /\ phrase_q = <<>>
     /\ cache_files = {}
     /\ ~cache_dir

\* the step in which the worker's processing of a text ends in an exception
C9_Fails ==
  /\ wpc \in TryPcs
  /\ wpc' \notin TryPcs
  /\ ~(wpc = "busy" /\ mixer)

\* C9: a failed synthesis or playback sends the worker back to the head of
\* its loop with phrases_spoken as it was, the worker thread ends only after
\* running was cleared, and while running stays true the worker eventually
\* takes the oldest text of a non-empty queue, unless speak's overflow removal
\* drops a text first (so every queued text that is not dropped gets its
\* turn), and the processing of a taken text comes to an end.
C9_WorkerSurvivesFailure ==
  /\ [][C9_Fails => (wpc' = "loop" /\ phrases_spoken' = phrases_spoken)]_vars
  /\ [](wpc = "exit" => ~running)
  /\ (running /\ phrase_q # <<>>)
       ~> (~running \/ wpc = "exists" \/ (mpc = "sp_put" /\ speak_result = "evicting"))
  /\ (wpc \in TryPcs) ~> (wpc \notin TryPcs)

\* while running is true the worker holds a text although a cached file
\* exists and no phrase was counted: an earlier text failed in synthesis and
\* the worker went on to the next
C9_Witness ==
  /\ running
  /\ wpc = "exists"
  /\ cache_files # {}
  /\ phrases_spoken = 0

(***************************************************************************)
(* Claims about __main__, checked under SpecMain.                          *)
(***************************************************************************)

\* C10 as claimed: on every path by which the process ends after the engine
\* was constructed, stop() was called exactly once, and it is never called
\* more than once.
C10_StopOnceOnEveryExit ==
  /\ stop_calls <= 1
  /\ hpc = "exited" => stop_calls = 1

\* C11: the host runs analysis, narration and speak on a frame only with a
\* depth map computed from that very frame: never without a depth map and
\* never with one carried over from an earlier frame.
C11_NarratesOnFreshDepth ==
  [][(hpc = "loop" /\ hpc' = "speaking")
       => /\ depth_frame' # None
          /\ depth_frame' = frame_count'
          /\ frame_count' - last_narration_frame >= narration_interval]_vars

\* the host is in its second narration, 45 frames after the first
C11_Witness ==
  /\ hpc = "speaking"
  /\ last_narration_frame = narration_interval
  /\ frame_count = 2 * narration_interval
  /\ depth_frame = frame_count

(***************************************************************************)
(* Claims about the narration path, checked under SpecAnalysis.            *)
(***************************************************************************)

\* analyze_situation has returned
C12_Analysed == apc \in {"narrate", "done"}

\* C12: path_status is 'blocked' iff some entry of the world model has
\* |x| < 0.7, z > 0 and distance < 3.0, whatever its class, its velocity and
\* its bucket; otherwise it is 'clear'.
C12_BlockedIffEntryInCorridor ==
  C12_Analysed =>
    LET in_corridor ==
          \E i \in 1..Len(world) :
            /\ world[i].position[1] > -7
            /\ world[i].position[1] < 7
            /\ world[i].position[3] > 0
            /\ world[i].position[1] * world[i].position[1]
                 + world[i].position[2] * world[i].position[2]
                 + world[i].position[3] * world[i].position[3] < 30 * 30
    IN situation.path_status = (IF in_corridor THEN "blocked" ELSE "clear")

\* the path is blocked by an entry that went to no bucket
C12_Witness ==
  /\ C12_Analysed
  /\ situation.path_status = "blocked"
  /\ Len(world) = 1
  /\ situation.urgent_alerts = <<>>
  /\ situation.moving_objects = <<>>
  /\ situation.obstacles = <<>>

\* generate_contextual_narration has returned
C13_Narrated == apc = "done"

\* the number of clauses of a text: one more than its "; " separators
C13_Clauses(text) == 1 + Cardinality({i \in 1..Len(text) : text[i] = "; "})

\* C13: the narration is 'Path is clear, no immediate hazards' iff
\* urgent_alerts, moving_objects and obstacles are all empty; in every other
\* case it is exactly two non-empty clauses joined by '; '.
C13_ClearPhraseOrTwoClauses ==
  C13_Narrated =>
    IF /\ situation.urgent_alerts = <<>>
       /\ situation.moving_objects = <<>>
       /\ situation.obstacles = <<>>
    THEN narration = ClearPhrase
    ELSE /\ narration # ClearPhrase
         /\ C13_Clauses(narration) = 2
         /\ narration[1] # "; "
         /\ narration[Len(narration)] # "; "

\* three urgent alerts were reported and the narration has two clauses
C13_Witness ==
  /\ C13_Narrated
  /\ Len(situation.urgent_alerts) = 3
  /\ C13_Clauses(narration) = 2

\* the clauses that the highest-priority non-empty bucket may contribute:
\* those of its first 2, 2 or 1 items, in the order of the bucket
C14_Contributed ==
  IF situation.urgent_alerts # <<>>
  THEN [i \in 1..Min(2, Len(situation.urgent_alerts)) |->
          <<situation.urgent_alerts[i].object, " ", situation.urgent_alerts[i].urgency,
            IF situation.urgent_alerts[i].urgency = "very close"
            THEN " on your " ELSE " from your ",
            situation.urgent_alerts[i].direction>>]
  ELSE IF situation.moving_objects # <<>>
  THEN [i \in 1..Min(2, Len(situation.moving_objects)) |->
          <<situation.moving_objects[i].object, " moving on your ",
            situation.moving_objects[i].direction>>]
  ELSE IF situation.obstacles # <<>>
  THEN <<<<situation.obstacles[1].object, " in path ahead">>>>
  ELSE <<>>

\* the path-status clause
C14_Status ==
  IF situation.path_status = "blocked" THEN "obstacle in path"
  ELSE "the way ahead is clear"

\* C14: only the highest-priority non-empty bucket (urgent alerts, then
\* moving objects, then obstacles) contributes clauses, in the bucket's
\* order and at most 2, 2 and 1 of them; the path-status clause is part of
\* the narration iff that bucket contributed exactly one clause.
C14_OneCategoryAndStatus ==
  apc = "done" =>
    /\ Len(C14_Contributed) = 2
         => narration = C14_Contributed[1] \o <<"; ">> \o C14_Contributed[2]
    /\ Len(C14_Contributed) = 1
         => narration = C14_Contributed[1] \o <<"; ", C14_Status>>
    /\ (\E i \in 1..Len(narration) : narration[i] = C14_Status)
         <=> Len(C14_Contributed) = 1

\* one urgent alert and a blocked path give "<alert>; obstacle in path",
\* the moving objects reported with them contributing nothing
C14_Witness ==
  /\ apc = "done"
  /\ Len(situation.urgent_alerts) = 1
  /\ situation.moving_objects # <<>>
  /\ situation.path_status = "blocked"
  /\ narration = C14_Contributed[1] \o <<"; ", "obstacle in path">>

\* prioritize_objects has returned
C15_Prioritized == apc \in {"analyze", "narrate", "done"}

\* the ids that prioritize_objects returned
C15_ReturnedIds == {prioritized[i].id : i \in 1..Len(prioritized)}

\* C15: prioritize_objects returns min(top_n, number of entries) entries of
\* the world model, with pairwise different ids, in the order of
\* non-increasing score, and no entry left out scores higher than an entry
\* returned.
C15_TopNByScore ==
  C15_Prioritized =>
    /\ Len(prioritized) = Min(top_n, Len(world))
    /\ \A i \in 1..Len(prioritized) :
         /\ prioritized[i].id \in 1..Len(world)
         /\ prioritized[i].info = world[prioritized[i].id]
    /\ \A i, j \in 1..Len(prioritized) :
         i < j => /\ prioritized[i].id # prioritized[j].id
                  /\ ScoreGeq(Score(prioritized[i].info), Score(prioritized[j].info))
    /\ \A o \in (1..Len(world)) \ C15_ReturnedIds :
         \A i \in 1..Len(prioritized) :
           ScoreGeq(Score(prioritized[i].info), Score(world[o]))

\* the two best of three entries were returned, the later entry first, and
\* the entry left out scores lower than both
C15_Witness ==
  /\ C15_Prioritized
  /\ Len(world) = 3
  /\ Len(prioritized) = 2
  /\ prioritized[1].id > prioritized[2].id
  /\ \A o \in (1..3) \ C15_ReturnedIds :
       ~ScoreGeq(Score(world[o]), Score(prioritized[2].info))

(***************************************************************************)
(* Further claims about IntelligentTTSEngine and SimpleTracker.            *)
(***************************************************************************)

\* C16 as claimed: under any interleaving with the worker's pops, speak
\* removes a queued text only when the queue holds 5 texts at the moment of
\* the removal, and the push of an accepted text never fails on a full
\* queue.
C16_RemovesOnlyWhenFull ==
  /\ [][(mpc = "sp_get" /\ mpc' = "sp_put" /\ phrase_q' # phrase_q)
         => Len(phrase_q) = QueueMaxsize]_vars
  /\ [](speak_result # "full")

\* C17: after stop() is called the worker thread comes to its end, without
\* waiting for music to play to its end: once stop() is past
\* pygame.mixer.quit() no music plays; and a worker that has seen running =
\* False has ended and takes no further text.
C17_WorkerEndsAfterStop ==
  /\ ~running ~> (wpc = "exit")
  /\ [](mpc \in {"st_list", "st_remove", "stopped"} => ~music_busy)
  /\ [][(wpc = "loop" /\ ~running /\ wpc' # wpc) => wpc' = "exit"]_vars
  /\ [][wpc = "exit" => (wpc' = "exit" /\ wtext' = wtext)]_vars

\* stop() has returned while the worker is still in its wait for the end of
\* the playback that stop() cut
C17_Witness ==
  /\ mpc = "stopped"
  /\ wpc = "busy"
  /\ ~mixer
  /\ ~music_busy

\* the tracks kept from earlier frames that the detections before the i-th of
\* the last call have left unclaimed
C18_Unclaimed(i) == DOMAIN prev_boxes \ {assigned[j].id : j \in 1..(i - 1)}

\* the IoU of the i-th detection of the last call with the last box of track t
C18_Iou(i, t) == iou(assigned[i].det.bbox, prev_boxes[t])

\* s >= t for two IoU pairs
C18_Geq(s, t) == s[1] * t[2] >= t[1] * s[2]

\* C18: the detections of a call are served in input order.  Each one is
\* given, among the tracks no earlier detection of the call has claimed, a
\* track of highest IoU with it when that IoU is strictly above 0.3, and a
\* newly minted id otherwise (also when the best IoU is exactly 0.3); the ids
\* minted in a call increase with the position of their detection, and no id
\* of the call, kept or minted, is given to a later detection of the call.
C18_GreedyInInputOrder ==
  \A i \in 1..Len(assigned) :
    LET best == {t \in C18_Unclaimed(i) :
                   \A u \in C18_Unclaimed(i) : C18_Geq(C18_Iou(i, t), C18_Iou(i, u))}
        above == \E t \in best : 10 * C18_Iou(i, t)[1] > 3 * C18_Iou(i, t)[2]
    IN /\ above => assigned[i].id \in best
       /\ ~above => /\ assigned[i].id \notin DOMAIN prev_boxes
                    /\ assigned[i].id
                         = prev_next_id
                           + Cardinality({j \in 1..(i - 1) :
                                            assigned[j].id \notin DOMAIN prev_boxes})
       /\ \A j \in 1..(i - 1) : assigned[j].id # assigned[i].id

\* a call whose first detection took the track that overlaps the second
\* detection most, so that the second detection kept another track
C18_Witness ==
  /\ Len(assigned) = 2
  /\ assigned[1].id \in DOMAIN prev_boxes
  /\ assigned[2].id \in DOMAIN prev_boxes
  /\ ~C18_Geq(C18_Iou(2, assigned[2].id), C18_Iou(2, assigned[1].id))

(***************************************************************************)
(* Further claims about analyze_situation and the narration, checked under *)
(* SpecAnalysis.  Lengths are in tenths of a metre and speeds in           *)
(* hundredths of a metre per frame, so that 3.0 m is 30 and 0.05 is 5;     *)
(* the tests are stated on the squares.                                    *)
(***************************************************************************)

\* the bucket the claim gives an entry: urgent_alerts when it is moving
\* (speed > 0.05), vz < -0.02 and distance < 3.0; otherwise moving_objects
\* when it is moving and distance < 4.0; otherwise obstacles when it is not
\* moving, -0.5 <= x <= 0.5 and distance < 3.0
C19_BucketOf(info) ==
  LET speed2 == Norm2(info.velocity)
      dist2 == Norm2(info.position)
      x == info.position[1]
  IN IF speed2 > 25 /\ info.velocity[3] < -2 /\ dist2 < 900 THEN "urgent_alerts"
     ELSE IF speed2 > 25 /\ dist2 < 1600 THEN "moving_objects"
     ELSE IF speed2 <= 25 /\ -5 <= x /\ x <= 5 /\ dist2 < 900 THEN "obstacles"
     ELSE "none"

\* the label the claim gives an urgent entry
C19_Label(info) ==
  LET dist2 == Norm2(info.position)
  IN IF dist2 < 225 THEN "very close"
     ELSE IF dist2 < 625 THEN "approaching quickly"
     ELSE "approaching"

\* the entries of the world model that the claim puts in bucket b, in the
\* order of the world model
C19_Members(b) ==
  LET idx == {i \in 1..Len(world) : C19_BucketOf(world[i]) = b}
  IN [k \in 1..Cardinality(idx) |->
        world[CHOOSE i \in idx : Cardinality({j \in idx : j <= i}) = k]]

\* C19: the three lists of the report hold exactly one item for each entry
\* that the precedence urgent_alerts, moving_objects, obstacles puts in them,
\* in the order of the world model, and nothing else: every entry is in at
\* most one list, and an urgent item carries the label of its distance.
C19_BucketPrecedence ==
  apc \in {"narrate", "done"} =>
    /\ \A b \in {"urgent_alerts", "moving_objects", "obstacles"} :
         /\ Len(situation[b]) = Len(C19_Members(b))
         /\ \A k \in 1..Len(situation[b]) :
              /\ situation[b][k].object = C19_Members(b)[k].class
              /\ situation[b][k].distance * situation[b][k].distance
                   = Norm2(C19_Members(b)[k].position)
    /\ \A k \in 1..Len(situation.urgent_alerts) :
         situation.urgent_alerts[k].urgency = C19_Label(C19_Members("urgent_alerts")[k])
    /\ Len(situation.urgent_alerts) + Len(situation.moving_objects)
         + Len(situation.obstacles) <= Len(world)

\* a report with an urgent alert, an obstacle, and a moving item for an entry
\* that approaches from 3.0 m or more
C19_Witness ==
  /\ apc = "done"
  /\ Len(situation.urgent_alerts) = 1
  /\ Len(situation.obstacles) = 1
  /\ Len(situation.moving_objects) = 1
  /\ \E i \in 1..Len(world) :
       /\ world[i].velocity[3] < -2
       /\ Norm2(world[i].position) >= 900
       /\ situation.moving_objects[1].object = world[i].class
       /\ situation.moving_objects[1].distance * situation.moving_objects[1].distance
            = Norm2(world[i].position)

\* C20: when the report says path_status "blocked", the narration made from
\* it is not "Path is clear, no immediate hazards".
C20_BlockedNeverNarratedClear ==
  apc = "done" =>
    (situation.path_status = "blocked" => narration # ClearPhrase)

\* C21: after every assign_ids call boxes_2d, positions_3d, timestamps and
\* ages have the same key set, every key is smaller than next_id, and every
\* stored age lies in 0..max_age.
C21_MappingsInSync ==
  /\ DOMAIN boxes_2d = DOMAIN ages
  /\ DOMAIN positions_3d = DOMAIN ages
  /\ DOMAIN timestamps = DOMAIN ages
  /\ \A oid \in DOMAIN ages :
       /\ oid < next_id
       /\ ages[oid] \in 0..max_age

\* a call that inserted a track and evicted another while a third one, not
\* matched by it, stayed
C21_Witness ==
  /\ \E oid \in DOMAIN ages : oid \notin DOMAIN prev_boxes
  /\ \E oid \in DOMAIN prev_boxes : oid \notin DOMAIN ages
  /\ \E oid \in DOMAIN prev_boxes \cap DOMAIN ages : ages[oid] > 0

====
